---- MODULE Spec2Model ----
(***************************************************************************)
(* Model of src/src/pages/Index.tsx: the two EV range calculators.         *)
(*                                                                         *)
(*   - the degradation variant (lines 1-729): NumericInput with            *)
(*     commitValue, the Index component state, getDynamicDefaults,         *)
(*     calculateRange, validateInputs, calculateStats, the debounced       *)
(*     recompute effect and handleCalculate;                               *)
(*   - the EPA variant (lines 731-1263): NumericInput.handleChange, the    *)
(*     Index component state and its recompute effect.                     *)
(*                                                                         *)
(* Numbers.  A JavaScript number or numeric string is a record             *)
(* [k |-> kind, v |-> value]; kind "num" carries the value in units of     *)
(* 1/Unit (four decimals), the other kinds ("empty", "partial", "NaN",     *)
(* "Infinity", "null") carry v = 0.  Multiplicative factors and battery    *)
(* energy are computed in units of 1/Micro (six decimals).  Each product   *)
(* and quotient is computed exactly and then rounded towards zero, with no *)
(* intermediate value leaving the 32-bit integer range.                    *)
(***************************************************************************)
EXTENDS Integers, Sequences, FiniteSets, TLC

VARIABLES
    \* degradation variant, component state (lines 70-93)
    fields, showAdvanced, chargingBehavior, drivingStyle, terrain,
    climateControl, regenBraking, predictedRange, calculationTriggered,
    \* degradation variant, environment: pending debounce timers, the
    \* NumericInput being edited, the last toast, the number of user steps
    \* taken in the current phase
    timers, editing, toast, steps,
    \* EPA variant, component state (lines 777-791) and effect position
    epa, epaPc,
    \* probes of the pure functions
    args, rangeOut, snap, statsOut, call, result

uiVars == <<fields, showAdvanced, chargingBehavior, drivingStyle, terrain,
            climateControl, regenBraking, predictedRange,
            calculationTriggered, timers, editing, toast, steps>>
epaVars == <<epa, epaPc>>
probeVars == <<args, rangeOut, snap, statsOut, call, result>>
vars == <<uiVars, epaVars, probeVars>>

----------------------------------------------------------------------------
(* Number representation                                                   *)

Unit == 10^4
Micro == 10^6

Num(v) == [k |-> "num", v |-> v]
EmptyStr == [k |-> "empty", v |-> 0]
PartialStr == [k |-> "partial", v |-> 0]
NaNVal == [k |-> "NaN", v |-> 0]
InfVal == [k |-> "Infinity", v |-> 0]
Null == [k |-> "null", v |-> 0]

\* n with d decimals, in units of 1/Unit: Dec(98, 2) is 0.98
Dec(n, d) == n * 10^(4 - d)

Abs(x) == IF x < 0 THEN 0 - x ELSE x
Max(a, b) == IF a >= b THEN a ELSE b
Sgn(x) == IF x < 0 THEN 0 - 1 ELSE 1

\* x * f / 10^6 rounded down, for 0 <= x < 2^31 and 0 <= f < 10^9, by long
\* multiplication in base 1000
MulNat(x, f) ==
    LET x2 == x \div 10^6
        x1 == (x \div 1000) % 1000
        x0 == x % 1000
        f2 == f \div 10^6
        f1 == (f \div 1000) % 1000
        f0 == f % 1000
    IN  x2 * f2 * 10^6 + (x2 * f1 + x1 * f2) * 1000
        + (x2 * f0 + x1 * f1 + x0 * f2)
        + ((x1 * f0 + x0 * f1) * 1000 + x0 * f0) \div 10^6

\* product of a value and a factor given in 1/Micro, rounded towards zero
Mul(x, f) == Sgn(x) * Sgn(f) * MulNat(Abs(x), Abs(f))

\* a * b / c rounded down, for a, b >= 0 and a small divisor c > 0
MulDiv(a, b, c) == (a \div c) * b + ((a % c) * b) \div c

\* [q, r] with a * 10^n = q * c + r and 0 <= r < c, for a >= 0 and c > 0, by
\* long division
RECURSIVE LongDivQR(_, _, _)
LongDivQR(a, c, n) ==
    IF n = 0 THEN [q |-> a \div c, r |-> a % c]
    ELSE LET h == LongDivQR(a, c, n - 1)
         IN  [q |-> h.q * 10 + (h.r * 10) \div c, r |-> (h.r * 10) % c]

\* a * 10^n / c rounded towards zero, for c # 0
LongDiv(a, c, n) == Sgn(a) * Sgn(c) * LongDivQR(Abs(a), Abs(c), n).q

\* integer square root by bisection: the largest s in lo..hi with s*s <= n
RECURSIVE IsqrtIn(_, _, _)
IsqrtIn(n, lo, hi) ==
    IF lo >= hi THEN lo
    ELSE LET mid == (lo + hi + 1) \div 2
         IN  IF mid * mid <= n THEN IsqrtIn(n, mid, hi)
             ELSE IsqrtIn(n, lo, mid - 1)

Isqrt(n) == IsqrtIn(n, 0, 46340)

\* Number.prototype.toFixed(d) of a finite value in 1/Unit: the nearest
\* multiple of 10^-d, halves away from zero
toFixed(x, d) ==
    LET step == 10^(4 - d)
    IN  Num(Sgn(x) * ((Abs(x) + step \div 2) \div step) * step)

\* Number(text): '' is 0, a partial literal such as '-' is NaN
Number(t) == IF t.k = "empty" THEN Num(0)
             ELSE IF t.k = "num" THEN Num(t.v)
             ELSE NaNVal

isNaN(n) == n.k = "NaN"

----------------------------------------------------------------------------
(* Degradation variant: pure functions (lines 98-129)                      *)

\* variant of getDynamicDefaults: the thresholds included, >= 75 and <= 40
getDynamicDefaults_Inclusive(capacity) ==
    [consumption |-> IF capacity >= Dec(75, 0) THEN Dec(18, 0)
                     ELSE IF capacity <= Dec(40, 0) THEN Dec(14, 0)
                     ELSE Dec(16, 0),
     terrainFactor |-> IF capacity >= Dec(75, 0) THEN Dec(105, 2)
                       ELSE Dec(10, 1)]

getDynamicDefaults(capacity) ==
    [consumption |-> IF capacity > Dec(75, 0) THEN Dec(18, 0)
                     ELSE IF capacity < Dec(40, 0) THEN Dec(14, 0)
                     ELSE Dec(16, 0),
     terrainFactor |-> IF capacity > Dec(75, 0) THEN Dec(105, 2)
                       ELSE Dec(10, 1)]

\* variant of cycleDegradationOf: the cycles of an earlier call are kept and
\* counted again
cycleDegradationOf_Accumulating(batteryAgeCycles) ==
    LET counted == IF statsOut = [k |-> "none", v |-> 0]
                   THEN batteryAgeCycles
                   ELSE 2 * batteryAgeCycles
        lin == counted \div 100
    IN  lin + Mul(lin, 2 * lin)

\* 0.0001 * cycles + 0.00000002 * cycles^2, in 1/Micro
cycleDegradationOf(batteryAgeCycles) ==
    LET lin == batteryAgeCycles \div 100
    IN  lin + Mul(lin, 2 * lin)

\* variant of calendarDegradationOf: linear in the years, the square root
\* dropped
calendarDegradationOf_Linear(batteryAgeYears) ==
    2 * batteryAgeYears

\* 0.02 * sqrt(years), in 1/Micro
calendarDegradationOf(batteryAgeYears) ==
    2 * Isqrt(batteryAgeYears * Unit)

\* variant of degradationOf: the floor of 0.7 dropped
degradationOf_NoFloor(batteryAgeCycles, batteryAgeYears) ==
    Micro - (cycleDegradationOf(batteryAgeCycles)
             + calendarDegradationOf(batteryAgeYears))

\* max(0.7, 1 - (cycleDegradation + calendarDegradation)), in 1/Micro
degradationOf(batteryAgeCycles, batteryAgeYears) ==
    Max(7 * 10^5,
        Micro - (cycleDegradationOf(batteryAgeCycles)
                 + calendarDegradationOf(batteryAgeYears)))

\* variant of tempFactorOf: only temperatures below 25 penalised
tempFactorOf_ColdOnly(temperature) ==
    Max(7 * 10^5, Micro - (Dec(25, 0) - temperature) \div 2)

\* max(0.7, 1.0 - 0.005 * |temperature - 25|), in 1/Micro
tempFactorOf(temperature) ==
    Max(7 * 10^5, Micro - Abs(temperature - Dec(25, 0)) \div 2)

\* variant of rangeOf: the ratio inverted, energyConsumption divided by
\* effectiveCapacity
rangeOf_Inverted(effectiveCapacity, energyConsumption) ==
    IF effectiveCapacity = 0
    THEN (IF energyConsumption = 0 THEN NaNVal ELSE InfVal)
    ELSE Num(LongDiv(energyConsumption, effectiveCapacity, 6))

\* effectiveCapacity / energyConsumption * 100 in 1/Unit; division by zero
\* gives Infinity, 0 / 0 gives NaN
rangeOf(effectiveCapacity, energyConsumption) ==
    IF energyConsumption = 0
    THEN (IF effectiveCapacity = 0 THEN NaNVal ELSE InfVal)
    ELSE Num(LongDiv(effectiveCapacity, energyConsumption, 6))

\* Math.max(0, range).toFixed(1)
rangeText(range) ==
    IF range.k = "num" THEN toFixed(Max(0, range.v), 1) ELSE range

\* variant of calculateRange: the climate factor applied whatever the switch
calculateRange_ClimateAlways(soc, batteryCapacity, drivingConsumption, temperature, baseEfficiency, chargingDegradation, batteryAgeCycles, batteryAgeYears, terrainFactor, climateControlOn, climateFactor, regenBrakingOn, regenFactor) ==
    LET cycleDegradation == cycleDegradationOf(batteryAgeCycles)
        calendarDegradation == calendarDegradationOf(batteryAgeYears)
        degradation == degradationOf(batteryAgeCycles, batteryAgeYears)
        tempFactor == tempFactorOf(temperature)
        effectiveClimateFactor == climateFactor * 100
        effectiveRegenFactor ==
            IF regenBrakingOn THEN regenFactor * 100 ELSE Micro
        effectiveCapacity ==
            Mul(Mul(Mul(Mul(Mul(Mul(Mul(batteryCapacity * 100, soc),
                                        degradation),
                                    baseEfficiency * 100),
                                chargingDegradation * 100),
                            tempFactor),
                        effectiveClimateFactor),
                effectiveRegenFactor)
        energyConsumption == MulDiv(drivingConsumption, terrainFactor, 100)
        range == rangeOf(effectiveCapacity, energyConsumption)
    IN  [range |-> rangeText(range),
         effectiveCapacity |-> toFixed(effectiveCapacity \div 100, 2),
         cycleDegradation |-> toFixed(cycleDegradation, 2),
         calendarDegradation |-> toFixed(calendarDegradation, 2),
         totalDegradation |-> toFixed(Micro - degradation, 2),
         tempFactor |-> toFixed(tempFactor \div 100, 3),
         energyConsumption |-> toFixed(energyConsumption \div 100, 2)]

calculateRange(soc, batteryCapacity, drivingConsumption, temperature, baseEfficiency, chargingDegradation, batteryAgeCycles, batteryAgeYears, terrainFactor, climateControlOn, climateFactor, regenBrakingOn, regenFactor) ==
    LET cycleDegradation == cycleDegradationOf(batteryAgeCycles)
        calendarDegradation == calendarDegradationOf(batteryAgeYears)
        degradation == degradationOf(batteryAgeCycles, batteryAgeYears)
        tempFactor == tempFactorOf(temperature)
        effectiveClimateFactor ==
            IF climateControlOn THEN climateFactor * 100 ELSE Micro
        effectiveRegenFactor ==
            IF regenBrakingOn THEN regenFactor * 100 ELSE Micro
        effectiveCapacity ==
            Mul(Mul(Mul(Mul(Mul(Mul(Mul(batteryCapacity * 100, soc),
                                        degradation),
                                    baseEfficiency * 100),
                                chargingDegradation * 100),
                            tempFactor),
                        effectiveClimateFactor),
                effectiveRegenFactor)
        energyConsumption == MulDiv(drivingConsumption, terrainFactor, 100)
        range == rangeOf(effectiveCapacity, energyConsumption)
    IN  [range |-> rangeText(range),
         effectiveCapacity |-> toFixed(effectiveCapacity \div 100, 2),
         cycleDegradation |-> toFixed(cycleDegradation, 2),
         calendarDegradation |-> toFixed(calendarDegradation, 2),
         totalDegradation |-> toFixed(Micro - degradation, 2),
         tempFactor |-> toFixed(tempFactor \div 100, 3),
         energyConsumption |-> toFixed(energyConsumption \div 100, 2)]

\* calculateRange applied to a record of its thirteen arguments
calculateRangeAt(a) ==
    calculateRange(a.soc, a.batteryCapacity, a.drivingConsumption,
                   a.temperature, a.baseEfficiency, a.chargingDegradation,
                   a.batteryAgeCycles, a.batteryAgeYears, a.terrainFactor,
                   a.climateControl, a.climateFactor, a.regenBraking,
                   a.regenFactor)

----------------------------------------------------------------------------
(* Degradation variant: validation and statistics (lines 131-181).  They   *)
(* read the component state of the render that created them, passed here   *)
(* as st = [fields, showAdvanced, climateControl, regenBraking].           *)

BasicFields == <<"soc", "batteryCapacity", "drivingConsumption">>
AdvancedFields == <<"temperature", "baseEfficiency", "chargingDegradation",
                    "batteryAgeCycles", "batteryAgeYears", "terrainFactor",
                    "climateFactor", "regenFactor">>
FieldNames == {BasicFields[i] : i \in DOMAIN BasicFields}
              \cup {AdvancedFields[i] : i \in DOMAIN AdvancedFields}

requiredFields(st) ==
    IF st.showAdvanced THEN BasicFields \o AdvancedFields ELSE BasicFields

\* variant of validateInputs: some() in place of every()
validateInputs_Some(st) ==
    \E i \in DOMAIN requiredFields(st) :
        LET val == st.fields[requiredFields(st)[i]]
        IN  val # EmptyStr /\ ~isNaN(Number(val))

validateInputs(st) ==
    \A i \in DOMAIN requiredFields(st) :
        LET val == st.fields[requiredFields(st)[i]]
        IN  val # EmptyStr /\ ~isNaN(Number(val))

\* Number(field) as a value in 1/Unit
NumOf(st, f) == Number(st.fields[f]).v

\* variant of socValues: the list written in descending order
socValues_Descending ==
    <<Dec(90, 0), Dec(70, 0), Dec(50, 0), Dec(30, 0), Dec(10, 0)>>

socValues == <<Dec(10, 0), Dec(30, 0), Dec(50, 0), Dec(70, 0), Dec(90, 0)>>

\* variant of statsArgs: the consumption field used in basic mode too
statsArgs_FieldConsumption(st) ==
    LET d == getDynamicDefaults(NumOf(st, "batteryCapacity"))
    IN  [soc |-> NumOf(st, "soc"),
         batteryCapacity |-> NumOf(st, "batteryCapacity"),
         drivingConsumption |-> NumOf(st, "drivingConsumption"),
         temperature |->
             IF st.showAdvanced THEN NumOf(st, "temperature") ELSE Dec(25, 0),
         baseEfficiency |->
             IF st.showAdvanced THEN NumOf(st, "baseEfficiency")
                                ELSE Dec(98, 2),
         chargingDegradation |->
             IF st.showAdvanced THEN NumOf(st, "chargingDegradation")
                                ELSE Dec(98, 2),
         batteryAgeCycles |->
             IF st.showAdvanced THEN NumOf(st, "batteryAgeCycles")
                                ELSE Dec(100, 0),
         batteryAgeYears |->
             IF st.showAdvanced THEN NumOf(st, "batteryAgeYears")
                                ELSE Dec(2, 0),
         terrainFactor |->
             IF st.showAdvanced THEN NumOf(st, "terrainFactor")
                                ELSE d.terrainFactor,
         climateControl |->
             IF st.showAdvanced THEN st.climateControl ELSE FALSE,
         climateFactor |->
             IF st.showAdvanced THEN NumOf(st, "climateFactor")
                                ELSE Dec(85, 2),
         regenBraking |-> IF st.showAdvanced THEN st.regenBraking ELSE TRUE,
         regenFactor |->
             IF st.showAdvanced THEN NumOf(st, "regenFactor")
                                ELSE Dec(105, 2)]

\* the arguments of the main calculateRange call (lines 140-154)
statsArgs(st) ==
    LET d == getDynamicDefaults(NumOf(st, "batteryCapacity"))
    IN  [soc |-> NumOf(st, "soc"),
         batteryCapacity |-> NumOf(st, "batteryCapacity"),
         drivingConsumption |->
             IF st.showAdvanced THEN NumOf(st, "drivingConsumption")
                                ELSE d.consumption,
         temperature |->
             IF st.showAdvanced THEN NumOf(st, "temperature") ELSE Dec(25, 0),
         baseEfficiency |->
             IF st.showAdvanced THEN NumOf(st, "baseEfficiency")
                                ELSE Dec(98, 2),
         chargingDegradation |->
             IF st.showAdvanced THEN NumOf(st, "chargingDegradation")
                                ELSE Dec(98, 2),
         batteryAgeCycles |->
             IF st.showAdvanced THEN NumOf(st, "batteryAgeCycles")
                                ELSE Dec(100, 0),
         batteryAgeYears |->
             IF st.showAdvanced THEN NumOf(st, "batteryAgeYears")
                                ELSE Dec(2, 0),
         terrainFactor |->
             IF st.showAdvanced THEN NumOf(st, "terrainFactor")
                                ELSE d.terrainFactor,
         climateControl |->
             IF st.showAdvanced THEN st.climateControl ELSE FALSE,
         climateFactor |->
             IF st.showAdvanced THEN NumOf(st, "climateFactor")
                                ELSE Dec(85, 2),
         regenBraking |-> IF st.showAdvanced THEN st.regenBraking ELSE TRUE,
         regenFactor |->
             IF st.showAdvanced THEN NumOf(st, "regenFactor")
                                ELSE Dec(105, 2)]

\* the main calculateRange call of calculateStats (lines 141-154)
statsMain(st) == calculateRangeAt(statsArgs(st))

\* variant of statsSensitivity: the terrain factor always taken from the
\* dynamic defaults, also in advanced mode
statsSensitivity_DefaultTerrain(st, s) ==
    LET d == getDynamicDefaults(NumOf(st, "batteryCapacity"))
    IN  [soc |-> s,
         range |-> calculateRange(
            s, NumOf(st, "batteryCapacity"),
            IF st.showAdvanced THEN NumOf(st, "drivingConsumption")
                               ELSE d.consumption,
            IF st.showAdvanced THEN NumOf(st, "temperature") ELSE Dec(25, 0),
            IF st.showAdvanced THEN NumOf(st, "baseEfficiency") ELSE Dec(98, 2),
            IF st.showAdvanced THEN NumOf(st, "chargingDegradation")
                               ELSE Dec(98, 2),
            IF st.showAdvanced THEN NumOf(st, "batteryAgeCycles")
                               ELSE Dec(100, 0),
            IF st.showAdvanced THEN NumOf(st, "batteryAgeYears") ELSE Dec(2, 0),
            d.terrainFactor,
            IF st.showAdvanced THEN st.climateControl ELSE FALSE,
            IF st.showAdvanced THEN NumOf(st, "climateFactor") ELSE Dec(85, 2),
            IF st.showAdvanced THEN st.regenBraking ELSE TRUE,
            IF st.showAdvanced THEN NumOf(st, "regenFactor") ELSE Dec(105, 2)
         ).range]

\* one entry of the sensitivity analysis (lines 158-174)
statsSensitivity(st, s) ==
    LET d == getDynamicDefaults(NumOf(st, "batteryCapacity"))
    IN  [soc |-> s,
         range |-> calculateRange(
            s, NumOf(st, "batteryCapacity"),
            IF st.showAdvanced THEN NumOf(st, "drivingConsumption")
                               ELSE d.consumption,
            IF st.showAdvanced THEN NumOf(st, "temperature") ELSE Dec(25, 0),
            IF st.showAdvanced THEN NumOf(st, "baseEfficiency") ELSE Dec(98, 2),
            IF st.showAdvanced THEN NumOf(st, "chargingDegradation")
                               ELSE Dec(98, 2),
            IF st.showAdvanced THEN NumOf(st, "batteryAgeCycles")
                               ELSE Dec(100, 0),
            IF st.showAdvanced THEN NumOf(st, "batteryAgeYears") ELSE Dec(2, 0),
            IF st.showAdvanced THEN NumOf(st, "terrainFactor")
                               ELSE d.terrainFactor,
            IF st.showAdvanced THEN st.climateControl ELSE FALSE,
            IF st.showAdvanced THEN NumOf(st, "climateFactor") ELSE Dec(85, 2),
            IF st.showAdvanced THEN st.regenBraking ELSE TRUE,
            IF st.showAdvanced THEN NumOf(st, "regenFactor") ELSE Dec(105, 2)
         ).range]

\* the consumption breakdown (lines 176-178)
consumptionBreakdown(st) ==
    [driving |-> toFixed(MulDiv(NumOf(st, "drivingConsumption"),
                                NumOf(st, "terrainFactor"), Unit), 2),
     climate |-> IF st.climateControl
                 THEN toFixed(MulDiv(NumOf(st, "drivingConsumption"),
                                     Unit - NumOf(st, "climateFactor"), Unit), 2)
                 ELSE Num(0),
     other |-> toFixed(NumOf(st, "drivingConsumption") \div 10, 2)]

calculateStats(st) ==
    LET stats == statsMain(st)
    IN  [range |-> stats.range,
         effectiveCapacity |-> stats.effectiveCapacity,
         cycleDegradation |-> stats.cycleDegradation,
         calendarDegradation |-> stats.calendarDegradation,
         totalDegradation |-> stats.totalDegradation,
         tempFactor |-> stats.tempFactor,
         energyConsumption |-> stats.energyConsumption,
         rangeSensitivity |-> [i \in DOMAIN socValues |->
                                  statsSensitivity(st, socValues[i])],
         consumptionBreakdown |-> consumptionBreakdown(st)]

----------------------------------------------------------------------------
(* Degradation variant: NumericInput (lines 17-57) and the inputs rendered *)
(* by Index.  A numeric string is identified with its value, so '1.0' and  *)
(* '1' are the same text.                                                  *)

\* min and max props of each NumericInput (lines 299-556)
FieldMin(f) ==
    CASE f = "soc" -> Dec(0, 0)
      [] f = "batteryCapacity" -> Dec(10, 0)
      [] f = "drivingConsumption" -> Dec(5, 0)
      [] f = "temperature" -> Dec(0 - 20, 0)
      [] f = "baseEfficiency" -> Dec(5, 1)
      [] f = "chargingDegradation" -> Dec(5, 1)
      [] f = "batteryAgeCycles" -> Dec(0, 0)
      [] f = "batteryAgeYears" -> Dec(0, 0)
      [] f = "terrainFactor" -> Dec(1, 0)
      [] f = "climateFactor" -> Dec(5, 1)
      [] f = "regenFactor" -> Dec(1, 0)

FieldMax(f) ==
    CASE f = "soc" -> Dec(100, 0)
      [] f = "batteryCapacity" -> Dec(200, 0)
      [] f = "drivingConsumption" -> Dec(50, 0)
      [] f = "temperature" -> Dec(50, 0)
      [] f = "baseEfficiency" -> Dec(1, 0)
      [] f = "chargingDegradation" -> Dec(1, 0)
      [] f = "batteryAgeCycles" -> Dec(2000, 0)
      [] f = "batteryAgeYears" -> Dec(20, 0)
      [] f = "terrainFactor" -> Dec(2, 0)
      [] f = "climateFactor" -> Dec(1, 0)
      [] f = "regenFactor" -> Dec(15, 1)

\* variant of commitValue: the upper bound not applied
commitValue_NoMax(internalValue, min, max) ==
    IF internalValue.k \in {"empty", "partial"} THEN EmptyStr
    ELSE LET num == internalValue.v
         IN  Num(IF num < min THEN min ELSE num)

\* commitValue (lines 24-34): the text handed to onChange
commitValue(internalValue, min, max) ==
    IF internalValue.k \in {"empty", "partial"} THEN EmptyStr
    ELSE LET num == internalValue.v
             lo == IF num < min THEN min ELSE num
             hi == IF lo > max THEN max ELSE lo
         IN  Num(hi)

\* the texts a user types into each input; the inputs left out are not
\* edited by hand (the selects still set chargingDegradation)
TypedTexts(f) ==
    CASE f = "soc" -> {EmptyStr, Num(Dec(80, 0)), Num(Dec(150, 0))}
      [] f = "batteryCapacity" -> {EmptyStr, Num(Dec(60, 0)), Num(Dec(100, 0))}
      [] f = "drivingConsumption" -> {EmptyStr, PartialStr, Num(Dec(2, 0))}
      [] f = "temperature" -> {EmptyStr, Num(Dec(0 - 40, 0))}
      [] f = "batteryAgeCycles" -> {Num(Dec(5000, 0))}
      [] f = "terrainFactor" -> {EmptyStr, Num(Dec(3, 0))}
      [] f = "climateFactor" -> {EmptyStr, Num(Dec(2, 1))}
      [] OTHER -> {}

\* the preset tables of the three selects (lines 421-425, 482-486, 500-504)
\* variant of chargingFactors: the values of fast and mixed exchanged
chargingFactors_Exchanged ==
    [standard |-> Num(Dec(98, 2)), fast |-> Num(Dec(94, 2)),
     mixed |-> Num(Dec(90, 2))]

chargingFactors ==
    [standard |-> Num(Dec(98, 2)), fast |-> Num(Dec(90, 2)),
     mixed |-> Num(Dec(94, 2))]
styleConsumption ==
    [eco |-> Num(Dec(14, 0)), normal |-> Num(Dec(16, 0)),
     aggressive |-> Num(Dec(20, 0))]
terrainFactors ==
    [flat |-> Num(Dec(10, 1)), hilly |-> Num(Dec(11, 1)),
     mountainous |-> Num(Dec(12, 1))]

----------------------------------------------------------------------------
(* Degradation variant: the Index component (lines 68-233, 284-597)        *)

\* user steps explored before the first calculation (the first click on
\* Calculate Range is not counted), and after it
MaxSetup == 4
MaxEdits == 1

NoEdit == [field |-> "none", text |-> EmptyStr]

Budget == IF calculationTriggered THEN MaxEdits ELSE MaxSetup

\* the state a render closes over
Cur == [fields |-> fields, showAdvanced |-> showAdvanced,
        climateControl |-> climateControl, regenBraking |-> regenBraking]

InitFields ==
    [f \in FieldNames |->
        CASE f \in {"soc", "batteryCapacity", "drivingConsumption"} -> EmptyStr
          [] f = "temperature" -> Num(Dec(25, 0))
          [] f = "baseEfficiency" -> Num(Dec(98, 2))
          [] f = "chargingDegradation" -> Num(Dec(98, 2))
          [] f = "batteryAgeCycles" -> Num(Dec(100, 0))
          [] f = "batteryAgeYears" -> Num(Dec(2, 0))
          [] f = "terrainFactor" -> Num(Dec(10, 1))
          [] f = "climateFactor" -> Num(Dec(85, 2))
          [] f = "regenFactor" -> Num(Dec(105, 2))]

InitUI ==
    /\ fields = InitFields
    /\ showAdvanced = FALSE
    /\ chargingBehavior = "standard"
    /\ drivingStyle = "normal"
    /\ terrain = "flat"
    /\ climateControl = FALSE
    /\ regenBraking = TRUE
    /\ predictedRange = Null
    /\ calculationTriggered = FALSE
    /\ timers = << >>
    /\ editing = NoEdit
    /\ toast = "none"
    /\ steps = 0

\* variant of effectTimers: showAdvanced left out of the dependency list
effectTimers_MissingDep(st, triggered) ==
    IF triggered /\ ([st EXCEPT !.showAdvanced = Cur.showAdvanced] # Cur
                     \/ triggered # calculationTriggered)
    THEN Append(timers, st)
    ELSE timers

\* the debounced recompute effect (lines 184-201): it runs after a render in
\* which a dependency changed, and when calculationTriggered holds it starts
\* a timer of its own debounce instance over the closures of that render
effectTimers(st, triggered) ==
    IF triggered /\ (st # Cur \/ triggered # calculationTriggered)
    THEN Append(timers, st)
    ELSE timers

\* the callback of a timer (lines 187-194), created in a render of state st;
\* the range destructured from calculateStats() is the range of its main
\* calculateRange call (line 180 spreads stats into the result)
recompute(st) ==
    IF validateInputs(st)
    THEN [predictedRange |-> statsMain(st).range, statsCalled |-> TRUE]
    ELSE [predictedRange |-> Null, statsCalled |-> FALSE]

\* handleCalculate (lines 203-219) run in a render of state st
handleCalculate(st, oldRange) ==
    IF validateInputs(st)
    THEN [calculationTriggered |-> TRUE,
          predictedRange |-> statsMain(st).range,
          statsCalled |-> TRUE,
          toast |-> "Range Calculated"]
    ELSE [calculationTriggered |-> TRUE,
          predictedRange |-> oldRange,
          statsCalled |-> FALSE,
          toast |-> "Missing Information"]

\* an input of the form is shown: the advanced card only in advanced mode
Shown(f) == f \in {"soc", "batteryCapacity", "drivingConsumption"} \/ showAdvanced

\* onChange of the inner Input (line 40): the user edits the text
Type(f, t) ==
    /\ steps < Budget
    /\ Shown(f)
    /\ editing = NoEdit \/ editing.field = f
    /\ editing' = [field |-> f, text |-> t]
    /\ steps' = steps + 1
    /\ UNCHANGED <<fields, showAdvanced, chargingBehavior, drivingStyle,
                   terrain, climateControl, regenBraking, predictedRange,
                   calculationTriggered, timers, toast>>
    /\ UNCHANGED <<epaVars, probeVars>>

\* onBlur or Enter (lines 41-47): commitValue, then the parent's setter
Commit ==
    /\ editing # NoEdit
    /\ LET f == editing.field
           text == commitValue(editing.text, FieldMin(f), FieldMax(f))
           st == [Cur EXCEPT !.fields[f] = text]
       IN  /\ fields' = st.fields
           /\ timers' = effectTimers(st, calculationTriggered)
    /\ editing' = NoEdit
    /\ UNCHANGED <<showAdvanced, chargingBehavior, drivingStyle, terrain,
                   climateControl, regenBraking, predictedRange,
                   calculationTriggered, toast, steps>>
    /\ UNCHANGED <<epaVars, probeVars>>

\* the Show/Hide Advanced Options button (line 357)
ToggleAdvanced ==
    /\ steps < Budget
    /\ editing = NoEdit
    /\ showAdvanced' = ~showAdvanced
    /\ timers' = effectTimers([Cur EXCEPT !.showAdvanced = ~showAdvanced],
                              calculationTriggered)
    /\ steps' = steps + 1
    /\ UNCHANGED <<fields, chargingBehavior, drivingStyle, terrain,
                   climateControl, regenBraking, predictedRange,
                   calculationTriggered, editing, toast>>
    /\ UNCHANGED <<epaVars, probeVars>>

\* the climate control switch (lines 564-568)
ToggleClimateControl ==
    /\ steps < Budget
    /\ editing = NoEdit
    /\ showAdvanced
    /\ climateControl' = ~climateControl
    /\ timers' = effectTimers([Cur EXCEPT !.climateControl = ~climateControl],
                              calculationTriggered)
    /\ steps' = steps + 1
    /\ UNCHANGED <<fields, showAdvanced, chargingBehavior, drivingStyle,
                   terrain, regenBraking, predictedRange,
                   calculationTriggered, editing, toast>>
    /\ UNCHANGED <<epaVars, probeVars>>

\* the regenerative braking switch (lines 573-577)
ToggleRegenBraking ==
    /\ steps < Budget
    /\ editing = NoEdit
    /\ showAdvanced
    /\ regenBraking' = ~regenBraking
    /\ timers' = effectTimers([Cur EXCEPT !.regenBraking = ~regenBraking],
                              calculationTriggered)
    /\ steps' = steps + 1
    /\ UNCHANGED <<fields, showAdvanced, chargingBehavior, drivingStyle,
                   terrain, climateControl, predictedRange,
                   calculationTriggered, editing, toast>>
    /\ UNCHANGED <<epaVars, probeVars>>

\* chargingBehavior onValueChange (lines 421-425); a Select reports a value
\* only when it differs from the selected one
SelectChargingBehavior(value) ==
    /\ steps < Budget
    /\ editing = NoEdit
    /\ showAdvanced
    /\ value # chargingBehavior
    /\ chargingBehavior' = value
    /\ LET st == [Cur EXCEPT !.fields["chargingDegradation"] =
                                 chargingFactors[value]]
       IN  /\ fields' = st.fields
           /\ timers' = effectTimers(st, calculationTriggered)
    /\ steps' = steps + 1
    /\ UNCHANGED <<showAdvanced, drivingStyle, terrain, climateControl,
                   regenBraking, predictedRange, calculationTriggered,
                   editing, toast>>
    /\ UNCHANGED <<epaVars, probeVars>>

\* drivingStyle onValueChange (lines 482-486)
SelectDrivingStyle(value) ==
    /\ steps < Budget
    /\ editing = NoEdit
    /\ showAdvanced
    /\ value # drivingStyle
    /\ drivingStyle' = value
    /\ LET st == [Cur EXCEPT !.fields["drivingConsumption"] =
                                 styleConsumption[value]]
       IN  /\ fields' = st.fields
           /\ timers' = effectTimers(st, calculationTriggered)
    /\ steps' = steps + 1
    /\ UNCHANGED <<showAdvanced, chargingBehavior, terrain, climateControl,
                   regenBraking, predictedRange, calculationTriggered,
                   editing, toast>>
    /\ UNCHANGED <<epaVars, probeVars>>

\* terrain onValueChange (lines 500-504)
SelectTerrain(value) ==
    /\ steps < Budget
    /\ editing = NoEdit
    /\ showAdvanced
    /\ value # terrain
    /\ terrain' = value
    /\ LET st == [Cur EXCEPT !.fields["terrainFactor"] = terrainFactors[value]]
       IN  /\ fields' = st.fields
           /\ timers' = effectTimers(st, calculationTriggered)
    /\ steps' = steps + 1
    /\ UNCHANGED <<showAdvanced, chargingBehavior, drivingStyle,
                   climateControl, regenBraking, predictedRange,
                   calculationTriggered, editing, toast>>
    /\ UNCHANGED <<epaVars, probeVars>>

\* a click on Calculate Range (lines 587-590); the button is disabled while
\* validateInputs() fails
HandleCalculate ==
    /\ calculationTriggered => steps < Budget
    /\ editing = NoEdit
    /\ validateInputs(Cur)
    /\ LET r == handleCalculate(Cur, predictedRange)
       IN  /\ calculationTriggered' = r.calculationTriggered
           /\ predictedRange' = r.predictedRange
           /\ toast' = r.toast
           /\ timers' = effectTimers(Cur, r.calculationTriggered)
    /\ steps' = (IF calculationTriggered THEN steps + 1 ELSE 0)
    /\ UNCHANGED <<fields, showAdvanced, chargingBehavior, drivingStyle,
                   terrain, climateControl, regenBraking, editing>>
    /\ UNCHANGED <<epaVars, probeVars>>

\* the oldest pending timer expires (line 64) and runs its callback
TimerFire ==
    /\ timers # << >>
    /\ predictedRange' = recompute(Head(timers)).predictedRange
    /\ timers' = Tail(timers)
    /\ UNCHANGED <<fields, showAdvanced, chargingBehavior, drivingStyle,
                   terrain, climateControl, regenBraking,
                   calculationTriggered, editing, toast, steps>>
    /\ UNCHANGED <<epaVars, probeVars>>

\* the results panel is rendered (line 599): predictedRange is truthy
panelShown == calculationTriggered /\ predictedRange # Null

\* the arguments of the calculateRange call that each calculateStats() of
\* the results panel makes in the current render (lines 639-709)
renderArgs == statsArgs(Cur)

NextUI ==
    \/ \E f \in FieldNames : \E t \in TypedTexts(f) : Type(f, t)
    \/ Commit
    \/ ToggleAdvanced
    \/ ToggleClimateControl
    \/ ToggleRegenBraking
    \/ \E value \in DOMAIN chargingFactors : SelectChargingBehavior(value)
    \/ \E value \in DOMAIN styleConsumption : SelectDrivingStyle(value)
    \/ \E value \in DOMAIN terrainFactors : SelectTerrain(value)
    \/ HandleCalculate
    \/ TimerFire

----------------------------------------------------------------------------
(* EPA variant (lines 731-1263).  The component state is the record epa;   *)
(* its numeric inputs, estimatedRange and a finite efficiency are in units *)
(* of 1/Unit, the four factors in units of 1/Micro.                        *)

EpaInputs == {"batteryCapacity", "epaRange", "currentCharge", "temperature",
              "avgSpeed"}
ClimateUsage == {"Low", "Medium", "High"}
TerrainType == {"Flat", "Hilly", "Mountain"}

\* the texts a user types into each input of the EPA variant
EpaTyped(f) ==
    CASE f = "batteryCapacity" -> {EmptyStr, PartialStr, Num(Dec(100, 0))}
      [] f = "epaRange" -> {EmptyStr, Num(Dec(250, 0))}
      [] f = "currentCharge" -> {EmptyStr, Num(Dec(100, 0))}
      [] f = "temperature" -> {EmptyStr, Num(Dec(0 - 20, 0)), Num(Dec(60, 0)),
                               Num(Dec(150, 0))}
      [] f = "avgSpeed" -> {EmptyStr, Num(Dec(5, 0)), Num(Dec(25, 0)),
                            Num(Dec(85, 0))}

\* useState initial values (lines 777-791)
EpaInitial ==
    [batteryCapacity |-> Dec(75, 0),
     epaRange |-> Dec(330, 0),
     currentCharge |-> Dec(80, 0),
     temperature |-> Dec(70, 0),
     avgSpeed |-> Dec(65, 0),
     climateUsage |-> "Medium",
     terrainType |-> "Flat",
     estimatedRange |-> 0,
     efficiency |-> Num(0),
     factors |-> [temperature |-> Micro, speed |-> Micro, climate |-> Micro,
                  terrain |-> Micro]]

InitEPA ==
    /\ epa = EpaInitial
    /\ epaPc = "effect"

\* 1 - |temperature - 70| * 0.015 (line 796)
temperatureFactorOf(temperature) ==
    Micro - (Abs(temperature - Dec(70, 0)) * 3) \div 2

\* variant of speedFactorOf: the max(0, ...) dropped, so that speeds below
\* 25 are penalised too
speedFactorOf_NoMax(avgSpeed) ==
    LET over == avgSpeed - Dec(25, 0)
    IN  Micro - Mul(over, 8 * over)

\* 1 - max(0, avgSpeed - 25)^2 * 0.0008 (line 799)
speedFactorOf(avgSpeed) ==
    LET over == Max(0, avgSpeed - Dec(25, 0))
    IN  Micro - Mul(over, 8 * over)

\* variant of climateFactorOf: the values of Low and Medium exchanged
climateFactorOf_Swapped(climateUsage) ==
    CASE climateUsage = "Low" -> 85 * 10^4
      [] climateUsage = "Medium" -> 95 * 10^4
      [] climateUsage = "High" -> 75 * 10^4
      [] OTHER -> Micro

\* the switch on climateUsage (lines 802-813)
climateFactorOf(climateUsage) ==
    CASE climateUsage = "Low" -> 95 * 10^4
      [] climateUsage = "Medium" -> 85 * 10^4
      [] climateUsage = "High" -> 75 * 10^4
      [] OTHER -> Micro

\* the switch on terrainType (lines 816-827)
terrainFactorOf(terrainType) ==
    CASE terrainType = "Hilly" -> 9 * 10^5
      [] terrainType = "Mountain" -> 8 * 10^5
      [] OTHER -> Micro

\* line 836
newEstimatedRangeOf(e, temperatureFactor, speedFactor, climateFactor, terrainFactor) ==
    Mul(Mul(Mul(Mul(Mul(e.epaRange, e.currentCharge), temperatureFactor),
                speedFactor),
            climateFactor),
        terrainFactor)

\* JavaScript division of two finite numbers in 1/Unit
Quotient(a, b) ==
    IF b = 0
    THEN (IF a = 0 THEN NaNVal ELSE InfVal)
    ELSE Num(LongDiv(a, b, 4))

\* variant of newEfficiencyOf: the guard on batteryCapacity dropped
newEfficiencyOf_Unguarded(e, newEstimatedRange) ==
    Quotient(newEstimatedRange, Mul(e.batteryCapacity, e.currentCharge))

\* line 839
newEfficiencyOf(e, newEstimatedRange) ==
    IF e.batteryCapacity # 0
    THEN Quotient(newEstimatedRange, Mul(e.batteryCapacity, e.currentCharge))
    ELSE Num(0)

\* the body of the recompute effect (lines 794-841)
epaEffect(e) ==
    LET temperatureFactor == temperatureFactorOf(e.temperature)
        speedFactor == speedFactorOf(e.avgSpeed)
        climateFactor == climateFactorOf(e.climateUsage)
        terrainFactor == terrainFactorOf(e.terrainType)
        newEstimatedRange ==
            newEstimatedRangeOf(e, temperatureFactor, speedFactor,
                                climateFactor, terrainFactor)
    IN  [e EXCEPT !.factors = [temperature |-> temperatureFactor,
                               speed |-> speedFactor,
                               climate |-> climateFactor,
                               terrain |-> terrainFactor],
                  !.estimatedRange = newEstimatedRange,
                  !.efficiency = newEfficiencyOf(e, newEstimatedRange)]

\* NumericInput.handleChange (lines 754-761): what onChange receives for the
\* text typed, or "ignored" when onChange is not called
handleChange(text) ==
    IF text.k = "num" THEN Num(text.v)
    ELSE IF text.k = "empty" THEN Num(0)
    ELSE [k |-> "ignored", v |-> 0]

\* the user changes the text of input f; the setter re-renders when the
\* value differs, and the effect then runs (dependencies, line 842)
EpaChange(f, text) ==
    /\ epaPc = "idle"
    /\ handleChange(text).k = "num"
    /\ handleChange(text).v # epa[f]
    /\ epa' = [epa EXCEPT ![f] = handleChange(text).v]
    /\ epaPc' = "effect"
    /\ UNCHANGED <<uiVars, probeVars>>

\* a typed text for which onChange is not called leaves the state alone
EpaIgnoredChange(f, text) ==
    /\ epaPc = "idle"
    /\ handleChange(text).k = "ignored"
    /\ UNCHANGED vars

\* the climate usage buttons (line 1001)
SetClimateUsage(level) ==
    /\ epaPc = "idle"
    /\ level # epa.climateUsage
    /\ epa' = [epa EXCEPT !.climateUsage = level]
    /\ epaPc' = "effect"
    /\ UNCHANGED <<uiVars, probeVars>>

\* the terrain buttons (line 1027)
SetTerrainType(t) ==
    /\ epaPc = "idle"
    /\ t # epa.terrainType
    /\ epa' = [epa EXCEPT !.terrainType = t]
    /\ epaPc' = "effect"
    /\ UNCHANGED <<uiVars, probeVars>>

\* the effect runs after the render (on mount and after each change)
EpaRunEffect ==
    /\ epaPc = "effect"
    /\ epa' = epaEffect(epa)
    /\ epaPc' = "idle"
    /\ UNCHANGED <<uiVars, probeVars>>

\* Math.round of a value in 1/Unit: the nearest whole number, halves up
Round(x) == (x + Unit \div 2) \div Unit

\* the impact rows (lines 1179-1220): colour class and reduction percent of
\* a factor
severityClass(factor) ==
    IF factor < 9 * 10^5 THEN "text-destructive"
    ELSE IF factor < 95 * 10^4 THEN "text-yellow-600"
    ELSE "text-green-600"

\* Math.round((1 - factor) * 100)
reductionPercent(factor) == (Micro - factor + 5000) \div 10^4

\* variant of colderScenario: the floor of 0.4 dropped
colderScenario_NoFloor(e) ==
    Round(Mul(Mul(Mul(Mul(Mul(e.epaRange, e.currentCharge), e.factors.speed),
                      e.factors.climate),
                  e.factors.terrain),
              temperatureFactorOf(e.temperature - Dec(10, 0))))

\* the range sensitivity rows (lines 1241, 1247, 1253)
colderScenario(e) ==
    Round(Mul(Mul(Mul(Mul(Mul(e.epaRange, e.currentCharge), e.factors.speed),
                      e.factors.climate),
                  e.factors.terrain),
              Max(4 * 10^5, temperatureFactorOf(e.temperature - Dec(10, 0)))))

fasterScenario(e) ==
    Round(Mul(Mul(Mul(Mul(Mul(e.epaRange, e.currentCharge),
                          e.factors.temperature),
                      e.factors.climate),
                  e.factors.terrain),
              Max(4 * 10^5, speedFactorOf(e.avgSpeed + Dec(10, 0)))))

highClimateScenario(e) ==
    Round(Mul(Mul(Mul(Mul(Mul(e.epaRange, e.currentCharge),
                          e.factors.temperature),
                      e.factors.speed),
                  e.factors.terrain),
              75 * 10^4))

NextEPA ==
    \/ \E f \in EpaInputs : \E text \in EpaTyped(f) : EpaChange(f, text)
    \/ \E f \in EpaInputs : \E text \in EpaTyped(f) : EpaIgnoredChange(f, text)
    \/ \E level \in ClimateUsage : SetClimateUsage(level)
    \/ \E t \in TerrainType : SetTerrainType(t)
    \/ EpaRunEffect

----------------------------------------------------------------------------
(* Probes of the pure functions over grids of arguments                    *)

NoProbe == [k |-> "none", v |-> 0]

\* arguments of calculateRange, over the declared domains
ArgGrid ==
    [soc : {Dec(0, 0), Dec(80, 0), Dec(100, 0)},
     batteryCapacity : {Dec(10, 0), Dec(60, 0), Dec(200, 0)},
     drivingConsumption : {Dec(5, 0), Dec(16, 0), Dec(50, 0)},
     temperature : {Dec(0 - 20, 0), Dec(25, 0)},
     baseEfficiency : {Dec(5, 1), Dec(98, 2)},
     chargingDegradation : {Dec(98, 2)},
     batteryAgeCycles : {Dec(0, 0), Dec(100, 0), Dec(2000, 0)},
     batteryAgeYears : {Dec(0, 0), Dec(2, 0), Dec(20, 0)},
     terrainFactor : {Dec(1, 0), Dec(2, 0)},
     climateControl : BOOLEAN,
     climateFactor : {Dec(5, 1), Dec(85, 2)},
     regenBraking : BOOLEAN,
     regenFactor : {Dec(105, 2), Dec(15, 1)}]

CallCalculateRange ==
    /\ rangeOut = NoProbe
    /\ rangeOut' = calculateRangeAt(args)
    /\ UNCHANGED <<args, snap, statsOut, call, result>>
    /\ UNCHANGED <<uiVars, epaVars>>

\* component states a render can close over
SnapFields ==
    [soc : {EmptyStr, Num(Dec(80, 0))},
     batteryCapacity : {Num(Dec(10, 0)), Num(Dec(60, 0)), Num(Dec(200, 0))},
     drivingConsumption : {EmptyStr, Num(Dec(5, 0)), Num(Dec(16, 0))},
     temperature : {Num(Dec(0 - 20, 0)), Num(Dec(25, 0))},
     baseEfficiency : {Num(Dec(5, 1)), Num(Dec(98, 2))},
     chargingDegradation : {Num(Dec(98, 2))},
     batteryAgeCycles : {Num(Dec(100, 0)), Num(Dec(2000, 0))},
     batteryAgeYears : {Num(Dec(2, 0))},
     terrainFactor : {Num(Dec(1, 0)), Num(Dec(2, 0))},
     climateFactor : {EmptyStr, Num(Dec(85, 2))},
     regenFactor : {Num(Dec(105, 2))}]

SnapGrid ==
    [fields : SnapFields, showAdvanced : BOOLEAN, climateControl : BOOLEAN,
     regenBraking : BOOLEAN]

\* calculateStats in a render of the probe state
CallCalculateStats ==
    /\ statsOut = NoProbe
    /\ statsOut' = calculateStats(snap)
    /\ UNCHANGED <<args, rangeOut, snap, call, result>>
    /\ UNCHANGED <<uiVars, epaVars>>

\* a further calculateStats() call of the same render: the results panel
\* calls it once per displayed value (lines 639-709)
RepeatCalculateStats ==
    /\ statsOut # NoProbe
    /\ result = NoProbe
    /\ result' = calculateStats(snap)
    /\ UNCHANGED <<args, rangeOut, snap, statsOut, call>>
    /\ UNCHANGED <<uiVars, epaVars>>

\* capacities passed to getDynamicDefaults: every whole number of the
\* declared domain and values next to the two thresholds
CapacityGrid ==
    {Dec(c, 0) : c \in 10..200}
    \cup {Dec(399, 1), Dec(401, 1), Dec(749, 1), Dec(751, 1)}

CallGetDynamicDefaults ==
    /\ call.k = "getDynamicDefaults"
    /\ result = NoProbe
    /\ result' = getDynamicDefaults(call.v)
    /\ UNCHANGED <<args, rangeOut, snap, statsOut, call>>
    /\ UNCHANGED <<uiVars, epaVars>>

\* temperatures passed to calculateRange: every whole degree from -40 to 90,
\* which holds the declared domain [-20, 50] and its mirror image around 25,
\* and tenths next to 25 and to the two points where the floor is reached
TemperatureGrid ==
    {Dec(t, 0) : t \in (0 - 40)..90}
    \cup {Dec(249, 1), Dec(251, 1), Dec(0 - 351, 1), Dec(0 - 349, 1),
          Dec(849, 1), Dec(851, 1)}

\* line 112 evaluated for one temperature
CallTempFactor ==
    /\ call.k = "tempFactor"
    /\ result = NoProbe
    /\ result' = Num(tempFactorOf(call.v))
    /\ UNCHANGED <<args, rangeOut, snap, statsOut, call>>
    /\ UNCHANGED <<uiVars, epaVars>>

----------------------------------------------------------------------------
(* Specifications                                                          *)

IdleUI == InitUI
IdleEPA == InitEPA
IdleProbes ==
    /\ args = NoProbe
    /\ rangeOut = NoProbe
    /\ snap = NoProbe
    /\ statsOut = NoProbe
    /\ call = NoProbe
    /\ result = NoProbe

\* the degradation variant
Init == InitUI /\ IdleEPA /\ IdleProbes
Next == NextUI
Spec == Init /\ [][Next]_vars

\* the EPA variant
InitB == InitEPA /\ IdleUI /\ IdleProbes
NextB == NextEPA
SpecEPA == InitB /\ [][NextB]_vars

\* calculateRange over ArgGrid
InitRange ==
    /\ args \in ArgGrid
    /\ rangeOut = NoProbe
    /\ snap = NoProbe
    /\ statsOut = NoProbe
    /\ call = NoProbe
    /\ result = NoProbe
    /\ IdleUI
    /\ IdleEPA
NextRange == CallCalculateRange
SpecRange == InitRange /\ [][NextRange]_vars

\* validateInputs and calculateStats over SnapGrid
InitStats ==
    /\ snap \in SnapGrid
    /\ statsOut = NoProbe
    /\ args = NoProbe
    /\ rangeOut = NoProbe
    /\ call = NoProbe
    /\ result = NoProbe
    /\ IdleUI
    /\ IdleEPA
NextStats == CallCalculateStats \/ RepeatCalculateStats
SpecStats == InitStats /\ [][NextStats]_vars

\* tempFactor over TemperatureGrid
InitTemp ==
    /\ call \in {[k |-> "tempFactor", v |-> t] : t \in TemperatureGrid}
    /\ result = NoProbe
    /\ args = NoProbe
    /\ rangeOut = NoProbe
    /\ snap = NoProbe
    /\ statsOut = NoProbe
    /\ IdleUI
    /\ IdleEPA
NextTemp == CallTempFactor
SpecTemp == InitTemp /\ [][NextTemp]_vars

\* getDynamicDefaults over CapacityGrid
InitDefaults ==
    /\ call \in {[k |-> "getDynamicDefaults", v |-> c] : c \in CapacityGrid}
    /\ result = NoProbe
    /\ args = NoProbe
    /\ rangeOut = NoProbe
    /\ snap = NoProbe
    /\ statsOut = NoProbe
    /\ IdleUI
    /\ IdleEPA
NextDefaults == CallGetDynamicDefaults
SpecDefaults == InitDefaults /\ [][NextDefaults]_vars

----------------------------------------------------------------------------
(* Properties                                                              *)

\* the declared domains of the EPA variant's numeric inputs
EpaInDomain(e) ==
    /\ e.currentCharge >= Dec(0, 0) /\ e.currentCharge <= Dec(100, 0)
    /\ e.temperature >= Dec(0 - 20, 0) /\ e.temperature <= Dec(120, 0)
    /\ e.avgSpeed >= Dec(5, 0) /\ e.avgSpeed <= Dec(85, 0)
    /\ e.epaRange >= 0

\* C1: EPA variant.  Once the recompute effect has run on inputs inside the
\* declared domains, estimatedRange is >= 0.  The code does not satisfy
\* this: the initial state (avgSpeed 65) gives speedFactor -0.28 and an
\* estimatedRange of about -62.8.
C1_EstimatedRangeNonNegative ==
    (epaPc = "idle" /\ EpaInDomain(epa)) => epa.estimatedRange >= 0

\* C2: degradation variant.  For arguments inside the declared domains the
\* range returned by calculateRange is a finite number >= 0.
C2_RangeNonNegative ==
    rangeOut # NoProbe =>
        /\ rangeOut.range.k = "num"
        /\ rangeOut.range.v >= 0

\* calculateRange has returned a positive range for a full, aged, cold
\* battery
C2_Witness ==
    /\ rangeOut # NoProbe
    /\ args.soc = Dec(100, 0)
    /\ args.batteryAgeCycles = Dec(2000, 0)
    /\ args.temperature = Dec(0 - 20, 0)
    /\ rangeOut.range.k = "num"
    /\ rangeOut.range.v > 0

\* a required field of the render state st holds no number: the three basic
\* fields, and the eight advanced ones in advanced mode
SomeRequiredMissing(st) ==
    \E f \in {"soc", "batteryCapacity", "drivingConsumption"}
             \cup (IF st.showAdvanced
                   THEN {"temperature", "baseEfficiency",
                         "chargingDegradation", "batteryAgeCycles",
                         "batteryAgeYears", "terrainFactor", "climateFactor",
                         "regenFactor"}
                   ELSE {}) :
        st.fields[f].k # "num"

\* C3: degradation variant.  While a required field is empty or not a
\* number, handleCalculate does not call calculateStats and leaves
\* predictedRange as it is; and a debounce timer whose render state has such
\* a field sets predictedRange to null when it fires.
C3_NoRangeFromIncompleteInputs ==
    [][/\ SomeRequiredMissing(Cur) =>
              LET r == handleCalculate(Cur, predictedRange)
              IN  r.predictedRange = predictedRange /\ ~r.statsCalled
       /\ (/\ timers # << >>
           /\ timers' = Tail(timers)
           /\ SomeRequiredMissing(Head(timers))) => predictedRange' = Null
      ]_vars

\* after a calculation, a required field was cleared and the timer of that
\* render has fired and reset predictedRange
C3_Witness ==
    /\ calculationTriggered
    /\ timers = << >>
    /\ SomeRequiredMissing(Cur)
    /\ predictedRange = Null

\* C4: EPA variant.  Clearing a numeric input to the empty text is refused:
\* the step stores no substituted value in the state and starts no
\* recomputation.  The code does not satisfy this: handleChange passes 0 to
\* the setter and the effect recomputes estimatedRange from it.
C4_ClearedInputRefused ==
    [][\A f \in EpaInputs :
          (epaPc = "idle" /\ EpaChange(f, EmptyStr)) =>
              (epa'[f] = epa[f] /\ epaPc' = "idle")]_vars

\* C5: degradation variant.  The degradation multiplier lies between 0.7
\* and 1, and for 2000 cycles and 20 years it is exactly 0.7, with
\* totalDegradation reported as 30.00.
C5_DegradationBounds ==
    rangeOut # NoProbe =>
        LET degradation ==
                degradationOf(args.batteryAgeCycles, args.batteryAgeYears)
        IN  /\ degradation >= 7 * 10^5
            /\ degradation <= Micro
            /\ (args.batteryAgeCycles = Dec(2000, 0)
                /\ args.batteryAgeYears = Dec(20, 0)) =>
                   /\ degradation = 7 * 10^5
                   /\ rangeOut.totalDegradation = Num(Dec(3000, 2))

\* calculateRange has run for 2000 cycles and 20 years
C5_Witness ==
    /\ rangeOut # NoProbe
    /\ args.batteryAgeCycles = Dec(2000, 0)
    /\ args.batteryAgeYears = Dec(20, 0)
    /\ rangeOut.totalDegradation = Num(Dec(3000, 2))

\* the regression fixture of the degradation variant
DegradationFixture ==
    [soc |-> Dec(80, 0), batteryCapacity |-> Dec(60, 0),
     drivingConsumption |-> Dec(16, 0), temperature |-> Dec(25, 0),
     baseEfficiency |-> Dec(98, 2), chargingDegradation |-> Dec(98, 2),
     batteryAgeCycles |-> Dec(100, 0), batteryAgeYears |-> Dec(2, 0),
     terrainFactor |-> Dec(10, 1), climateControl |-> FALSE,
     climateFactor |-> Dec(85, 2), regenBraking |-> TRUE,
     regenFactor |-> Dec(105, 2)]

\* C6 as stated: for the regression fixture the range is within 1 km of
\* 254.7 km.  The code does not give this value.
C6_FixtureRangeAsStated ==
    (rangeOut # NoProbe /\ args = DegradationFixture) =>
        /\ rangeOut.range.k = "num"
        /\ Abs(rangeOut.range.v - Dec(2547, 1)) <= Dec(1, 0)

\* C6, amended: for the regression fixture calculateRange returns the range
\* 290.9 km.
C6_FixtureRange ==
    (rangeOut # NoProbe /\ args = DegradationFixture) =>
        rangeOut.range = Num(Dec(2909, 1))

\* calculateRange has run on the regression fixture
C6_Witness ==
    /\ rangeOut # NoProbe
    /\ args = DegradationFixture
    /\ rangeOut.range.k = "num"
    /\ rangeOut.effectiveCapacity = Num(Dec(4654, 2))

\* the inputs of the EPA variant's regression fixture
EpaFixtureInputs(e) ==
    /\ e.temperature = Dec(70, 0)
    /\ e.avgSpeed = Dec(25, 0)
    /\ e.climateUsage = "Medium"
    /\ e.terrainType = "Flat"
    /\ e.epaRange = Dec(330, 0)
    /\ e.currentCharge = Dec(80, 0)

\* C7: EPA variant.  For temperature 70, avgSpeed 25, Medium, Flat, epaRange
\* 330 and currentCharge 80, the temperature, speed and terrain factors are
\* 1, the climate factor is 0.85 and estimatedRange is 224.4.
C7_EpaFixtureRange ==
    (epaPc = "idle" /\ EpaFixtureInputs(epa)) =>
        /\ epa.factors.temperature = Micro
        /\ epa.factors.speed = Micro
        /\ epa.factors.terrain = Micro
        /\ epa.factors.climate = 85 * 10^4
        /\ epa.estimatedRange = Dec(2244, 1)

\* the effect has run on the fixture inputs, reached by typing 25 for the
\* average speed
C7_Witness ==
    /\ epaPc = "idle"
    /\ EpaFixtureInputs(epa)
    /\ epa.batteryCapacity = Dec(75, 0)
    /\ epa.factors.speed = Micro

\* C8: degradation variant.  For valid inputs the ranges of the sensitivity
\* table, compared as numbers, do not decrease from one entry to the next,
\* in basic and in advanced mode.
C8_SensitivityMonotone ==
    (statsOut # NoProbe /\ ~SomeRequiredMissing(snap)) =>
        \A i \in 1..4 :
            /\ statsOut.rangeSensitivity[i].range.k = "num"
            /\ statsOut.rangeSensitivity[i + 1].range.k = "num"
            /\ statsOut.rangeSensitivity[i].range.v
                   <= statsOut.rangeSensitivity[i + 1].range.v

\* calculateStats has run in advanced mode on valid inputs, and the table
\* rises from its first entry to its last
C8_Witness ==
    /\ statsOut # NoProbe
    /\ ~SomeRequiredMissing(snap)
    /\ snap.showAdvanced
    /\ statsOut.rangeSensitivity[1].range.v
           < statsOut.rangeSensitivity[5].range.v

\* C9: degradation variant.  The sensitivity table has exactly five
\* entries, for soc 10, 30, 50, 70, 90 in this order, and the entry for soc
\* s is the range calculateRange returns for s and the arguments of the main
\* computation of the same calculateStats call.
C9_SensitivityEntries ==
    statsOut # NoProbe =>
        /\ DOMAIN statsOut.rangeSensitivity = 1..5
        /\ \A i \in 1..5 :
              LET s == Dec(20 * i - 10, 0)
              IN  /\ statsOut.rangeSensitivity[i].soc = s
                  /\ statsOut.rangeSensitivity[i].range =
                         calculateRangeAt([statsArgs(snap) EXCEPT !.soc = s]).range

\* calculateStats has run in advanced mode with a terrain factor, climate
\* control and braking setting that differ from the basic-mode defaults
C9_Witness ==
    /\ statsOut # NoProbe
    /\ snap.showAdvanced
    /\ ~SomeRequiredMissing(snap)
    /\ snap.fields.terrainFactor = Num(Dec(2, 0))
    /\ snap.climateControl
    /\ ~snap.regenBraking
    /\ statsOut.rangeSensitivity[5].soc = Dec(90, 0)

\* C10: EPA variant.  After the effect, efficiency is the quotient of
\* estimatedRange by batteryCapacity * (currentCharge / 100) whenever
\* batteryCapacity > 0, and it is 0 when batteryCapacity = 0.
C10_Efficiency ==
    epaPc = "idle" =>
        /\ epa.batteryCapacity > 0 =>
               epa.efficiency =
                   Quotient(epa.estimatedRange,
                            Mul(epa.batteryCapacity, epa.currentCharge))
        /\ epa.batteryCapacity = 0 => epa.efficiency = Num(0)

\* the effect has run with batteryCapacity 0 and a nonzero estimatedRange
C10_Witness ==
    /\ epaPc = "idle"
    /\ epa.batteryCapacity = 0
    /\ epa.estimatedRange # 0
    /\ epa.efficiency = Num(0)

\* arguments a of calculateRange for which energyConsumption, the product
\* drivingConsumption * terrainFactor, is 0
ZeroConsumption(a) == a.drivingConsumption = 0 \/ a.terrainFactor = 0

\* C11: degradation variant.  No call of calculateRange has
\* drivingConsumption * terrainFactor = 0: neither the calls made by
\* calculateStats() while the results panel is rendered, nor the call a
\* pending timer or a click on Calculate Range makes on valid inputs.  The
\* code does not satisfy this: with the panel shown in advanced mode and
\* drivingConsumption cleared, the render divides by 0 until the timer
\* hides the panel.
C11_EnergyConsumptionNonZero ==
    /\ panelShown => ~ZeroConsumption(renderArgs)
    /\ \A i \in DOMAIN timers :
           ~SomeRequiredMissing(timers[i]) =>
               ~ZeroConsumption(statsArgs(timers[i]))
    /\ ~SomeRequiredMissing(Cur) => ~ZeroConsumption(renderArgs)

\* the results panel is rendered in advanced mode with drivingConsumption
\* cleared, and the range its calculateStats() reports is not a number
C11_Witness ==
    /\ panelShown
    /\ showAdvanced
    /\ fields["drivingConsumption"] = EmptyStr
    /\ calculateStats(Cur).range = InfVal

\* C12: getDynamicDefaults(capacity) returns consumption 18 and
\* terrainFactor 1.05 for capacity > 75, consumption 14 and terrainFactor
\* 1.0 for capacity < 40, and 16 and 1.0 otherwise, the thresholds 40 and
\* 75 included in the last case.
C12_DynamicDefaults ==
    result # NoProbe =>
        /\ call.v > Dec(75, 0) =>
               result = [consumption |-> Dec(18, 0),
                         terrainFactor |-> Dec(105, 2)]
        /\ call.v < Dec(40, 0) =>
               result = [consumption |-> Dec(14, 0),
                         terrainFactor |-> Dec(10, 1)]
        /\ (call.v >= Dec(40, 0) /\ call.v <= Dec(75, 0)) =>
               result = [consumption |-> Dec(16, 0),
                         terrainFactor |-> Dec(10, 1)]

\* getDynamicDefaults has been called on the threshold 75
C12_Witness ==
    /\ result # NoProbe
    /\ call.v = Dec(75, 0)
    /\ result.consumption = Dec(16, 0)

SeverityOfReduction(reduction) ==
    IF reduction >= 10 * 10^4 THEN "text-destructive"
    ELSE IF reduction >= 5 * 10^4 THEN "text-yellow-600"
    ELSE "text-green-600"

\* C14: EPA variant.  Each impact row shows the critical colour for a
\* reduction >= 10%, the caution colour for a reduction >= 5% and < 10%,
\* the nominal colour otherwise, and the colour agrees with the rounded
\* percent displayed beside it.  The code does not satisfy this: it
\* compares factor < 0.9 and factor < 0.95, so Hilly (0.9, shown as 10%)
\* is caution and Low (0.95, shown as 5%) is nominal.
C14_SeverityThresholds ==
    \A n \in {"temperature", "speed", "climate", "terrain"} :
        /\ severityClass(epa.factors[n])
               = SeverityOfReduction(Micro - epa.factors[n])
        /\ severityClass(epa.factors[n])
               = SeverityOfReduction(reductionPercent(epa.factors[n]) * 10^4)

\* the effect has run for Hilly terrain: the row shows 10% in the caution
\* colour
C14_Witness ==
    /\ epaPc = "idle"
    /\ epa.terrainType = "Hilly"
    /\ reductionPercent(epa.factors.terrain) = 10
    /\ severityClass(epa.factors.terrain) = "text-yellow-600"

\* C15: EPA variant.  Each scenario value is the rounded product of
\* epaRange, currentCharge / 100, the three current factors that are not
\* perturbed, and the perturbed factor: max(0.4, temperature factor at
\* temperature - 10), max(0.4, speed factor at avgSpeed + 10), or 0.75;
\* the floor of 0.4 applies to the perturbed factor only.
C15_Scenarios ==
    LET base == Mul(epa.epaRange, epa.currentCharge)
        colder == Micro - (Abs(epa.temperature - Dec(80, 0)) * 3) \div 2
        over == Max(0, epa.avgSpeed - Dec(15, 0))
        faster == Micro - Mul(over, 8 * over)
        product(f1, f2, f3, perturbed) ==
            Round(Mul(Mul(Mul(Mul(base, f1), f2), f3), perturbed))
    IN  /\ colderScenario(epa)
               = product(epa.factors.speed, epa.factors.climate,
                         epa.factors.terrain, Max(4 * 10^5, colder))
        /\ fasterScenario(epa)
               = product(epa.factors.temperature, epa.factors.climate,
                         epa.factors.terrain, Max(4 * 10^5, faster))
        /\ highClimateScenario(epa)
               = product(epa.factors.temperature, epa.factors.speed,
                         epa.factors.terrain, 75 * 10^4)

\* the effect has run at -20 F and 85 mph, where both perturbed factors
\* are below the floor while the current speed factor is negative
C15_Witness ==
    /\ epaPc = "idle"
    /\ epa.temperature = Dec(0 - 20, 0)
    /\ epa.avgSpeed = Dec(85, 0)
    /\ epa.factors.speed < 0
    /\ colderScenario(epa) < 0
    /\ fasterScenario(epa) # 0

\* C16: A change made while a recomputation is
\* pending cancels it, so at most one recompute timer is pending at any
\* time.  The code does not satisfy this: every run of the effect wraps the
\* callback in a new debounce(), whose clearTimeout has nothing to clear,
\* so the timers of earlier changes stay pending and all of them fire.
C16_AtMostOneTimerPending ==
    Len(timers) <= 1

\* two recomputations are pending at once
C16_Witness ==
    /\ calculationTriggered
    /\ Len(timers) >= 2
    /\ timers[1] # timers[2]

\* C17: Whenever the results panel is rendered, the
\* headline predictedRange is the range calculateStats() yields in the same
\* render.  The code does not satisfy this: after a change the headline
\* keeps the previous range until the timer fires, while the detail panels
\* are computed from the new inputs.
C17_HeadlineMatchesDetails ==
    panelShown => predictedRange = calculateStats(Cur).range

\* the panel is rendered with valid inputs and no edit in progress, and
\* the headline differs from the range of the current inputs
C17_Witness ==
    /\ panelShown
    /\ editing = NoEdit
    /\ ~SomeRequiredMissing(Cur)
    /\ predictedRange # calculateStats(Cur).range

\* C18: After a calculation has been triggered, once
\* no timer is pending predictedRange is the range of the current inputs
\* when every required field holds a number, and null otherwise.
C18_FinalRange ==
    (calculationTriggered /\ timers = << >>) =>
        predictedRange = IF SomeRequiredMissing(Cur) THEN Null
                         ELSE calculateStats(Cur).range

\* inputs were changed after the calculation, every timer has fired and the
\* range shown is that of the changed inputs
C18_Witness ==
    /\ calculationTriggered
    /\ timers = << >>
    /\ steps > 0
    /\ editing = NoEdit
    /\ predictedRange # Null
    /\ predictedRange = calculateStats(Cur).range

\* the range of basic mode as a function of soc and batteryCapacity alone:
\* consumption and terrain factor from the capacity, the rest fixed
BasicRange(s, capacity) ==
    LET d == getDynamicDefaults(capacity)
    IN  calculateRange(s, capacity, d.consumption, Dec(25, 0), Dec(98, 2),
                       Dec(98, 2), Dec(100, 0), Dec(2, 0), d.terrainFactor,
                       FALSE, Dec(85, 2), TRUE, Dec(105, 2)).range

\* C19: degradation variant.  With the advanced options hidden, the range
\* and the sensitivity table of calculateStats are functions of soc and
\* batteryCapacity alone, whatever the other fields and the two switches
\* hold: two states that agree on soc and batteryCapacity give the same
\* range and the same table.
C19_BasicModeDependsOnSocAndCapacity ==
    (statsOut # NoProbe /\ ~snap.showAdvanced) =>
        LET capacity == NumOf(snap, "batteryCapacity")
        IN  /\ statsOut.range = BasicRange(NumOf(snap, "soc"), capacity)
            /\ \A i \in DOMAIN socValues :
                  statsOut.rangeSensitivity[i].range =
                      BasicRange(socValues[i], capacity)

\* calculateStats has run in basic mode on a state whose consumption,
\* terrain factor, temperature and switches all differ from what basic
\* mode assumes
C19_Witness ==
    /\ statsOut # NoProbe
    /\ ~snap.showAdvanced
    /\ snap.fields.soc = Num(Dec(80, 0))
    /\ snap.fields.drivingConsumption = Num(Dec(5, 0))
    /\ snap.fields.terrainFactor = Num(Dec(2, 0))
    /\ snap.fields.temperature = Num(Dec(0 - 20, 0))
    /\ snap.climateControl
    /\ ~snap.regenBraking
    /\ statsOut.range.v > 0

\* C20: degradation variant.  In the results panel the driving component
\* of the consumption breakdown is the energyConsumption of the same
\* calculateStats call, and the climate component is 0.00 whenever the
\* range is computed with climate control off.  The code does not satisfy
\* this: the breakdown reads the raw fields and the climateControl switch
\* also while the advanced options are hidden and the range uses defaults.
C20_BreakdownMatchesRange ==
    panelShown =>
        LET stats == calculateStats(Cur)
        IN  /\ stats.consumptionBreakdown.driving = stats.energyConsumption
            /\ ~renderArgs.climateControl =>
                   stats.consumptionBreakdown.climate = Num(0)

\* the panel is rendered in basic mode with every required field set and
\* the driving component differs from the energy consumption of the range
C20_Witness ==
    /\ panelShown
    /\ ~showAdvanced
    /\ ~SomeRequiredMissing(Cur)
    /\ calculateStats(Cur).consumptionBreakdown.driving
           # calculateStats(Cur).energyConsumption

\* C21: degradation variant.  The climate factor enters the effective
\* capacity only when climate control is on, and the regen factor only when
\* regenerative braking is on: with a switch off, a call that differs only
\* in the factor of that switch returns the same result, and with the
\* switch on and a non-empty battery the factor changes the effective
\* capacity.
C21_FactorsGatedBySwitch ==
    rangeOut # NoProbe =>
        /\ \A cf \in {Dec(5, 1), Dec(85, 2), Dec(1, 0)} :
              LET other == calculateRangeAt([args EXCEPT !.climateFactor = cf])
              IN  /\ ~args.climateControl => other = rangeOut
                  /\ (args.climateControl /\ args.soc > 0
                      /\ cf # args.climateFactor) =>
                         other.effectiveCapacity # rangeOut.effectiveCapacity
        /\ \A rf \in {Dec(1, 0), Dec(105, 2), Dec(15, 1)} :
              LET other == calculateRangeAt([args EXCEPT !.regenFactor = rf])
              IN  /\ ~args.regenBraking => other = rangeOut
                  /\ (args.regenBraking /\ args.soc > 0
                      /\ rf # args.regenFactor) =>
                         other.effectiveCapacity # rangeOut.effectiveCapacity

\* calculateRange has run with both switches off on a charged battery, a
\* climate factor of 0.5 and a regen factor of 1.5
C21_Witness ==
    /\ rangeOut # NoProbe
    /\ ~args.climateControl
    /\ ~args.regenBraking
    /\ args.soc = Dec(80, 0)
    /\ args.climateFactor = Dec(5, 1)
    /\ args.regenFactor = Dec(15, 1)
    /\ rangeOut.range.v > 0

C23_TempFactorSymmetric ==
    result # NoProbe =>
        /\ result.v = tempFactorOf(Dec(50, 0) - call.v)
        /\ call.v = Dec(25, 0) => result.v = Micro
        /\ result.v >= 7 * 10^5
        /\ result.v <= Micro

\* the factor has been computed for a temperature above 25 C at which the
\* penalty is neither zero nor floored
C23_Witness ==
    /\ result # NoProbe
    /\ call.k = "tempFactor"
    /\ call.v = Dec(45, 0)
    /\ result.v = 9 * 10^5

\* the declared domain of each numeric field of the degradation variant
DeclaredDomain(f) ==
    CASE f = "soc" -> [lo |-> Dec(0, 0), hi |-> Dec(100, 0)]
      [] f = "batteryCapacity" -> [lo |-> Dec(10, 0), hi |-> Dec(200, 0)]
      [] f = "drivingConsumption" -> [lo |-> Dec(5, 0), hi |-> Dec(50, 0)]
      [] f = "temperature" -> [lo |-> Dec(0 - 20, 0), hi |-> Dec(50, 0)]
      [] f \in {"baseEfficiency", "chargingDegradation", "climateFactor"} ->
             [lo |-> Dec(5, 1), hi |-> Dec(1, 0)]
      [] f = "batteryAgeCycles" -> [lo |-> Dec(0, 0), hi |-> Dec(2000, 0)]
      [] f = "batteryAgeYears" -> [lo |-> Dec(0, 0), hi |-> Dec(20, 0)]
      [] f = "terrainFactor" -> [lo |-> Dec(1, 0), hi |-> Dec(2, 0)]
      [] f = "regenFactor" -> [lo |-> Dec(1, 0), hi |-> Dec(15, 1)]

\* C24: degradation variant.  Every numeric field held in the component
\* state is empty or a number inside its declared domain, and the text of
\* an edit in progress is committed as empty when it is blank, as the
\* nearest bound when it is a number outside the domain, and unchanged
\* otherwise.
C24_FieldsInDomain ==
    /\ \A f \in FieldNames :
          \/ fields[f] = EmptyStr
          \/ /\ fields[f].k = "num"
             /\ fields[f].v >= DeclaredDomain(f).lo
             /\ fields[f].v <= DeclaredDomain(f).hi
    /\ editing # NoEdit =>
          LET d == DeclaredDomain(editing.field)
              t == editing.text
              committed == commitValue(t, FieldMin(editing.field),
                                       FieldMax(editing.field))
          IN  committed = IF t.k # "num" THEN EmptyStr
                          ELSE IF t.v < d.lo THEN Num(d.lo)
                          ELSE IF t.v > d.hi THEN Num(d.hi)
                          ELSE t

\* soc was typed as 150 and committed as 100, after a preset selection
C24_Witness ==
    /\ editing = NoEdit
    /\ fields.soc = Num(Dec(100, 0))
    /\ drivingStyle = "eco"
    /\ fields.drivingConsumption = Num(Dec(14, 0))

\* C25: EPA variant.  The values held in state stay inside their declared
\* domains, currentCharge in [0, 100], temperature in [-20, 120] and
\* avgSpeed in [5, 85], so the effect only runs on in-domain values.  The
\* code does not satisfy this: handleChange hands the parsed number to the
\* setter unclamped and 0 for a cleared input; min and max are only
\* attributes of the input element.
C25_EpaStateInDomain ==
    /\ epa.currentCharge \in Dec(0, 0)..Dec(100, 0)
    /\ epa.temperature \in Dec(0 - 20, 0)..Dec(120, 0)
    /\ epa.avgSpeed \in Dec(5, 0)..Dec(85, 0)

\* the effect has run on a temperature of 150 F
C25_Witness ==
    /\ epaPc = "idle"
    /\ epa.temperature = Dec(150, 0)
    /\ epa.factors.temperature = Micro - 12 * 10^5

\* C26: degradation variant.  A step that changes the driving style sets
\* drivingConsumption to 14 (eco), 16 (normal) or 20 (aggressive); a step
\* that changes the terrain sets terrainFactor to 1.0 (flat), 1.1 (hilly)
\* or 1.2 (mountainous); a step that changes the charging behaviour sets
\* chargingDegradation to 0.98 (standard), 0.90 (fast) or 0.94 (mixed).
\* Such a step changes no other field, no other selector, neither switch,
\* not the mode and not predictedRange.
C26_PresetFrame ==
    [][LET style == [eco |-> Dec(14, 0), normal |-> Dec(16, 0),
                     aggressive |-> Dec(20, 0)]
           ground == [flat |-> Dec(10, 1), hilly |-> Dec(11, 1),
                      mountainous |-> Dec(12, 1)]
           charging == [standard |-> Dec(98, 2), fast |-> Dec(90, 2),
                        mixed |-> Dec(94, 2)]
           rest == <<showAdvanced, climateControl, regenBraking,
                     predictedRange, calculationTriggered>>
       IN  /\ drivingStyle' # drivingStyle =>
                 /\ fields' = [fields EXCEPT !.drivingConsumption =
                                                Num(style[drivingStyle'])]
                 /\ UNCHANGED <<chargingBehavior, terrain, rest>>
           /\ terrain' # terrain =>
                 /\ fields' = [fields EXCEPT !.terrainFactor =
                                                Num(ground[terrain'])]
                 /\ UNCHANGED <<chargingBehavior, drivingStyle, rest>>
           /\ chargingBehavior' # chargingBehavior =>
                 /\ fields' = [fields EXCEPT !.chargingDegradation =
                                                Num(charging[chargingBehavior'])]
                 /\ UNCHANGED <<drivingStyle, terrain, rest>>]_vars

\* each of the three selects has been changed and its linked field holds
\* the preset, with the basic fields as they were
C26_Witness ==
    /\ drivingStyle = "aggressive"
    /\ fields.drivingConsumption = Num(Dec(20, 0))
    /\ terrain = "mountainous"
    /\ fields.terrainFactor = Num(Dec(12, 1))
    /\ chargingBehavior = "fast"
    /\ fields.chargingDegradation = Num(Dec(90, 2))
    /\ fields.soc = EmptyStr

\* C27: EPA variant.  Once the effect has run on inputs inside the declared
\* domains, efficiency is a finite number, and it is 0 when currentCharge
\* is 0.  The code does not satisfy this: line 839 guards batteryCapacity
\* only, so currentCharge = 0 gives 0 / 0, which is NaN.
C27_EfficiencyWellDefined ==
    (/\ epaPc = "idle"
     /\ EpaInDomain(epa)
     /\ epa.batteryCapacity >= Dec(10, 0)
     /\ epa.batteryCapacity <= Dec(200, 0)) =>
        /\ epa.efficiency.k = "num"
        /\ epa.currentCharge = 0 => epa.efficiency = Num(0)

\* the effect has run on in-domain inputs with currentCharge 0 and left
\* NaN as the efficiency
C27_Witness ==
    /\ epaPc = "idle"
    /\ EpaInDomain(epa)
    /\ epa.batteryCapacity = Dec(75, 0)
    /\ epa.currentCharge = 0
    /\ epa.estimatedRange = 0
    /\ epa.efficiency = NaNVal

\* C28: EPA variant.  Once the effect has run on inputs inside the declared
\* domains, the value of the '+10 mph faster' row is not greater than the
\* displayed estimate, Math.round(estimatedRange).  The code does not
\* satisfy this: the row floors the speed factor at 0.4 while the estimate
\* uses the unfloored factor, which is below 0.4 above 52 mph and negative
\* above 60 mph.
C28_FasterNeverLonger ==
    (epaPc = "idle" /\ EpaInDomain(epa)) =>
        fasterScenario(epa) <= Round(epa.estimatedRange)

\* the effect has run on the initial inputs (65 mph): the estimate shown is
\* negative and the faster row shows a positive range
C28_Witness ==
    /\ epaPc = "idle"
    /\ epa.avgSpeed = Dec(65, 0)
    /\ epa.temperature = Dec(70, 0)
    /\ epa.currentCharge = Dec(80, 0)
    /\ epa.epaRange = Dec(330, 0)
    /\ epa.climateUsage = "Medium"
    /\ epa.terrainType = "Flat"
    /\ Round(epa.estimatedRange) = 0 - 63
    /\ fasterScenario(epa) = 90

====
